---- MODULE Spec2Model ----
(***************************************************************************)
(* Model of the adcortex chat clients: the bounded message queue, the      *)
(* Idle/Processing state machine, the batch submission with its            *)
(* suspension points, the circuit breaker and the latest-ad slot.          *)
(*                                                                         *)
(* AsyncAdcortexChatClient is an async class running on one JavaScript     *)
(* event loop: a method runs without interruption up to its next `await`,  *)
(* so every action below is one such uninterrupted run.                    *)
(***************************************************************************)
EXTENDS Integers, Sequences, FiniteSets, TLC

(* ------------------------------ bounds -------------------------------- *)
MaxQueueSize == 2     \* the largest max_queue_size (QueueSizes)
MaxThreshold == 3     \* the largest circuit_breaker_threshold (Thresholds)
MaxTimeout == 2       \* circuit_breaker_timeout, in clock ticks
MaxCalls == 3         \* number of __call__ invocations in one run
MaxTime == 2          \* the clock runs from 0 to MaxTime
MaxErrors == 5        \* record_error() calls made directly on a CircuitBreaker
MaxTemplateLen == 4   \* number of tokens of a context template given to the constructor
MaxCount == 3         \* num_messages_before_ad and num_messages_between_ads range over 1..MaxCount
MaxMessages == 6      \* number of call() invocations on the message-count client

(* --------------------------- fixed values ----------------------------- *)
Null == -1            \* JavaScript null (reset_time, _processing_task, latest_ad)

IDLE == "IDLE"
PROCESSING == "PROCESSING"
ClientState == {IDLE, PROCESSING}

Role == {"user", "ai"}

VARIABLES
    key,              \* the api_key argument of the constructor, the environment value
                      \* ADCORTEX_API_KEY, the field _api_key and how the constructor ended
    max_queue_size,   \* AsyncAdcortexChatClient._max_queue_size
    context_template, \* AsyncAdcortexChatClient._context_template
    message_queue,    \* AsyncAdcortexChatClient._message_queue
    state,            \* AsyncAdcortexChatClient._state
    processing_task,  \* AsyncAdcortexChatClient._processing_task (id of the task, or Null)
    circuit_breaker,  \* AsyncAdcortexChatClient._circuit_breaker
    latest_ad,        \* AsyncAdcortexChatClient.latest_ad (id of the ad, or Null)
    tasks,            \* the suspended _process_queue() runs, each at its await
    now,              \* utcNow()
    next_id,          \* number of __call__ invocations made so far, plus one
    evicted,          \* history: ids of the messages removed by the overflow shift()
    outcomes,         \* history: "fail"/"ok" of every settled submission, in order
    opened_at,        \* history: the time of the latest Closed -> Open transition, or Null
    slot_log,         \* history: the latest response with ads, malformed response or read
    delivered,        \* history: the ads that get_latest_ad() has returned, in order
    prev,             \* history: the submission that settled most recently
    committed,        \* history: ids of the messages of the batches that were committed
    legacy,           \* the message-count AdcortexChatClient (dist/chat_client.js)
    legacy_last,      \* history: the latest operation on it, with the state before it
    last,             \* history: the operation that produced this state
    sync,             \* the AdcortexChatClient (synchronous variant): its fields, its
                      \* suspended __call__s and its outstanding transport requests
    sync_last         \* history: the operation of the AdcortexChatClient that ran last

vars == <<legacy, legacy_last, committed, key, max_queue_size, context_template, message_queue, state, processing_task, circuit_breaker,
          latest_ad, tasks, now, next_id, evicted, outcomes, opened_at, slot_log, delivered,
          prev, last, sync, sync_last>>

(* ------------------------- sequence helpers --------------------------- *)
\* Array.prototype.slice(n): the elements from index n (0-based) on.
Slice(q, n) == IF n >= Len(q) THEN <<>> ELSE SubSeq(q, n + 1, Len(q))

\* Array.prototype.shift(): removes the first element; no effect on [].
Shift(q) == IF q = <<>> THEN <<>> ELSE Tail(q)

Ids(q) == {q[i].id : i \in 1..Len(q)}

IsPrefix(p, q) == Len(p) <= Len(q) /\ SubSeq(q, 1, Len(p)) = p

(* ------------------------------ strings ------------------------------- *)
\* A string is a sequence of tokens. A token is a placeholder ("{ad_title}",
\* ...), one of the replacement patterns "$&" and "$$" of
\* String.prototype.replace, or a piece of any other text; "" is <<>>.
RECURSIVE IndexOf(_, _, _)
\* The first position from i on at which the token tok stands in s, or 0.
IndexOf(s, tok, i) ==
    IF i > Len(s) THEN 0
    ELSE IF s[i] = tok THEN i
         ELSE IndexOf(s, tok, i + 1)

RECURSIVE Expand(_, _)
\* The replacement string as replace() inserts it: "$&" stands for the matched
\* text and "$$" for a single "$".
Expand(replacement, matched) ==
    IF replacement = <<>> THEN <<>>
    ELSE (IF Head(replacement) = "$&" THEN <<matched>>
          ELSE IF Head(replacement) = "$$" THEN <<"$">>
               ELSE <<Head(replacement)>>) \o Expand(Tail(replacement), matched)

\* String.prototype.replace(pattern, replacement) with a string pattern: only
\* the first occurrence of the pattern is replaced.
Replace(s, pattern, replacement) ==
    LET i == IndexOf(s, pattern, 1)
    IN  IF i = 0 THEN s
        ELSE SubSeq(s, 1, i - 1) \o Expand(replacement, pattern) \o SubSeq(s, i + 1, Len(s))

\* DEFAULT_CONTEXT_TEMPLATE
DEFAULT_CONTEXT_TEMPLATE ==
    <<"Here is a product the user might like: ", "{ad_title}", " - ", "{ad_description}",
      ": here is a sample way to present it: ", "{placement_template}">>

\* The chain of replace() calls of create_context on the template, for the ad
\* with the fields ad (the body shared by both clients).
format_context(template, ad) ==
    Replace(Replace(Replace(template, "{ad_title}", ad.ad_title),
                    "{ad_description}", ad.ad_description),
            "{placement_template}", ad.placement_template)

(* --------------------------- CircuitBreaker --------------------------- *)
\* new CircuitBreaker(threshold, timeout)
NewCircuitBreaker(threshold, timeout) ==
    [threshold |-> threshold, timeout |-> timeout,
     error_count |-> 0, reset_time |-> Null, is_open |-> FALSE]

\* record_error() restarting the cooldown on every error at or over the threshold.
record_error_ExtendsCooldown(cb, t) ==
    LET counted == [cb EXCEPT !.error_count = cb.error_count + 1]
    IN  IF counted.error_count >= counted.threshold
        THEN [counted EXCEPT !.is_open = TRUE, !.reset_time = t + cb.timeout]
        ELSE counted

\* record_error() opening the breaker only over the threshold, not at it.
record_error_StrictlyOver(cb, t) ==
    LET counted == [cb EXCEPT !.error_count = cb.error_count + 1]
    IN  IF counted.error_count > counted.threshold /\ ~counted.is_open
        THEN [counted EXCEPT !.is_open = TRUE, !.reset_time = t + cb.timeout]
        ELSE counted

\* CircuitBreaker.record_error() at time t: the breaker afterwards.
record_error(cb, t) ==
    LET counted == [cb EXCEPT !.error_count = cb.error_count + 1]
    IN  IF counted.error_count >= counted.threshold /\ ~counted.is_open
        THEN [counted EXCEPT !.is_open = TRUE, !.reset_time = t + cb.timeout]
        ELSE counted

\* is_open() closing the breaker only after reset_time, not at it.
is_open_StrictlyAfter(cb, t) ==
    IF ~cb.is_open
    THEN [ret |-> FALSE, cb |-> cb]
    ELSE IF cb.reset_time # Null /\ t > cb.reset_time
         THEN [ret |-> FALSE,
               cb |-> [cb EXCEPT !.is_open = FALSE, !.error_count = 0, !.reset_time = Null]]
         ELSE [ret |-> TRUE, cb |-> cb]

\* is_open() closing the breaker after the cooldown but keeping error_count.
is_open_KeepsCount(cb, t) ==
    IF ~cb.is_open
    THEN [ret |-> FALSE, cb |-> cb]
    ELSE IF cb.reset_time # Null /\ t >= cb.reset_time
         THEN [ret |-> FALSE, cb |-> [cb EXCEPT !.is_open = FALSE, !.reset_time = Null]]
         ELSE [ret |-> TRUE, cb |-> cb]

\* is_open() answering with the stored flag, without looking at the clock.
is_open_NoExpiry(cb, t) == [ret |-> cb.is_open, cb |-> cb]

\* CircuitBreaker.is_open() at time t: the returned value and the breaker afterwards.
is_open(cb, t) ==
    IF ~cb.is_open
    THEN [ret |-> FALSE, cb |-> cb]
    ELSE IF cb.reset_time # Null /\ t >= cb.reset_time
         THEN [ret |-> FALSE,
               cb |-> [cb EXCEPT !.is_open = FALSE, !.error_count = 0, !.reset_time = Null]]
         ELSE [ret |-> TRUE, cb |-> cb]

\* A reset() that closes the breaker but keeps the errors counted so far.
reset_KeepsCount(cb) == [cb EXCEPT !.is_open = FALSE, !.reset_time = Null]

\* CircuitBreaker.reset()
reset(cb) == [cb EXCEPT !.is_open = FALSE, !.error_count = 0, !.reset_time = Null]

(* ------------------------------ history ------------------------------- *)
\* The operation `op` taken from the current state, with what it saw before it ran.
\* `role` is the role of a __call__, and for the steps of a submission the kind
\* of response it got.
Event(op, role, id, started, ret, snap) ==
    [op |-> op, role |-> role, id |-> id, started |-> started, ret |-> ret, snap |-> snap,
     t |-> now, pre_state |-> state, pre_queue |-> message_queue,
     pre_cb |-> circuit_breaker, pre_tasks |-> tasks, pre_ad |-> latest_ad,
     pre_log |-> slot_log, promise |-> "none", ctx |-> <<>>, got |-> Null]

\* opened_at follows the breaker: it is set by the step that opens it.
TrackOpening ==
    opened_at' = IF ~circuit_breaker.is_open /\ circuit_breaker'.is_open THEN now ELSE opened_at

(* ------------------------------ api key ------------------------------- *)
\* A value that is a string, or null/undefined (set = FALSE).
Missing == [set |-> FALSE, text |-> ""]
Str(text) == [set |-> TRUE, text |-> text]

\* JavaScript truthiness of such a value: null, undefined and "" are falsy.
Truthy(v) == v.set /\ v.text # ""

\* a || b
Or(a, b) == IF Truthy(a) THEN a ELSE b

\* The values of the api_key argument and of process.env.ADCORTEX_API_KEY.
KeyArgs == {Missing, Str(""), Str("arg-key")}
EnvValues == {Missing, Str(""), Str("env-key")}

\* A constructor that never checks the key it ended up with.
construct_NoCheck(api_key, env) ==
    [arg |-> api_key, env |-> env, field |-> Or(Or(api_key, env), Str("")), ended |-> "constructed"]

\* The constructor on the argument api_key with the environment value env:
\* `api_key || process.env.ADCORTEX_API_KEY || ""`, then the throw when the
\* result is empty.
construct(api_key, env) ==
    LET field == Or(Or(api_key, env), Str(""))
    IN  [arg |-> api_key, env |-> env, field |-> field,
         ended |-> IF ~Truthy(field) THEN "threw" ELSE "constructed"]

(* ------------------ AdcortexChatClient (message count) ---------------- *)
\* JavaScript values of the message counting: numbers, NaN and undefined.
Undefined == [type |-> "undefined", v |-> 0]
NaN == [type |-> "NaN", v |-> 0]
Number(n) == [type |-> "number", v |-> n]

\* ToNumber: undefined converts to NaN.
ToNumber(x) == IF x = Undefined THEN NaN ELSE x

\* a - b
Minus(a, b) ==
    IF ToNumber(a) = NaN \/ ToNumber(b) = NaN
    THEN NaN
    ELSE Number(ToNumber(a).v - ToNumber(b).v)

\* a >= b, false when either side converts to NaN
GreaterOrEqual(a, b) ==
    /\ ToNumber(a) # NaN
    /\ ToNumber(b) # NaN
    /\ ToNumber(a).v >= ToNumber(b).v

\* a < b, false when either side converts to NaN
LessThan(a, b) ==
    /\ ToNumber(a) # NaN
    /\ ToNumber(b) # NaN
    /\ ToNumber(a).v < ToNumber(b).v

\* obj.name: the value of the property, undefined when the object has none.
Get(obj, name) == IF name \in DOMAIN obj THEN obj[name] ELSE Undefined

\* new AdcortexChatClient(sessionInfo, template, apiKey, num_messages_before_ad,
\* num_messages_between_ads): `fields` holds the counting properties the
\* constructor assigns, in the order it assigns them (both assignments go to
\* this.num_messages_before_ad), `args` the two arguments as passed.
NewLegacy(num_messages_before_ad, num_messages_between_ads) ==
    LET first == [num_messages_before_ad |-> Number(num_messages_before_ad)]
        second == [first EXCEPT !.num_messages_before_ad = Number(num_messages_between_ads)]
    IN  [args |-> [num_messages_before_ad |-> num_messages_before_ad,
                   num_messages_between_ads |-> num_messages_between_ads],
         fields |-> second,
         messages |-> 0,
         shown_ads |-> <<>>,
         latest_ad |-> Null,
         requests |-> {},
         next_id |-> 1]

\* The message-count client just constructed with these two arguments.
InitLegacyWith(num_messages_before_ad, num_messages_between_ads) ==
    /\ legacy = NewLegacy(num_messages_before_ad, num_messages_between_ads)
    /\ legacy_last = [op |-> "new", attempted |-> FALSE, pre |-> legacy]

(* ------------------------------- Init --------------------------------- *)
\* The values of the constructor's max_queue_size and
\* circuit_breaker_threshold: the two smallest and the largest of the bounds.
QueueSizes == {0, 1, MaxQueueSize}
Thresholds == {1, 2, MaxThreshold}

\* The state after `new AsyncAdcortexChatClient(session_info, template, ...)`.
InitClients(template) ==
    /\ key = construct(Str("arg-key"), Missing)
    /\ max_queue_size \in QueueSizes
    /\ context_template = template
    /\ message_queue = <<>>
    /\ state = IDLE
    /\ processing_task = Null
    /\ circuit_breaker \in {NewCircuitBreaker(th, MaxTimeout) : th \in Thresholds}
    /\ latest_ad = Null
    /\ tasks = {}
    /\ now = 0
    /\ next_id = 1
    /\ evicted = {}
    /\ outcomes = <<>>
    /\ opened_at = Null
    /\ slot_log = [ev |-> "new", ads |-> <<>>]
    /\ delivered = <<>>
    /\ prev = [id |-> 0, snap |-> <<>>, failed |-> FALSE, kind |-> "none"]
    /\ committed = {}
    /\ sync = [max_queue_size |-> max_queue_size, message_queue |-> <<>>, state |-> IDLE,
               circuit_breaker |-> circuit_breaker, latest_ad |-> Null,
               calls |-> {}, requests |-> {}, next_id |-> 1, evicted |-> {},
               alive |-> TRUE]
    /\ sync_last = [op |-> "new", role |-> "none", id |-> 0, started |-> FALSE, pre |-> sync]
    /\ last = [op |-> "new", role |-> "none", id |-> 0, started |-> FALSE, ret |-> FALSE,
               snap |-> <<>>, t |-> 0, pre_state |-> IDLE, pre_queue |-> <<>>,
               pre_cb |-> circuit_breaker, pre_tasks |-> {}, pre_ad |-> Null,
               pre_log |-> slot_log, promise |-> "none", ctx |-> <<>>, got |-> Null]

\* The clients after construction, the message-count client with its
\* default arguments.
InitWith(template) ==
    /\ InitClients(template)
    /\ InitLegacyWith(3, 2)

\* The client constructed with the default context template.
Init == InitWith(DEFAULT_CONTEXT_TEMPLATE)

(* ---------------------- AsyncAdcortexChatClient ----------------------- *)
\* _is_task_running()
is_task_running == processing_task # Null /\ state = PROCESSING

\* An enqueue that refuses the new message when the queue is full.
Enqueue_RejectWhenFull(q, m) ==
    IF Len(q) >= max_queue_size THEN q ELSE Append(q, m)

\* An enqueue that puts the new message at the front of the queue.
Enqueue_AtFront(q, m) ==
    <<m>> \o (IF Len(q) >= max_queue_size THEN Shift(q) ELSE q)

\* The queue after the overflow check and the push of __call__.
Enqueue(q, m) ==
    Append(IF Len(q) >= max_queue_size THEN Shift(q) ELSE q, m)

\* The condition without the checks of the client state.
ShouldProcess_NoStateGuard(role) ==
    /\ role = "user"
    /\ ~is_open(circuit_breaker, now).ret

\* The condition without the check of the role.
ShouldProcess_AnyRole(role) ==
    /\ state = IDLE
    /\ ~is_open(circuit_breaker, now).ret
    /\ ~is_task_running

\* The condition without the check of the circuit breaker.
ShouldProcess_NoBreaker(role) ==
    /\ state = IDLE
    /\ role = "user"
    /\ ~is_task_running

\* The condition of __call__ under which the queue is processed; is_open() is
\* evaluated only when the two conditions before it hold (short-circuit &&).
ShouldProcess(role) ==
    /\ state = IDLE
    /\ role = "user"
    /\ ~is_open(circuit_breaker, now).ret
    /\ ~is_task_running

\* The breaker after the condition of __call__ has been evaluated.
BreakerAfterGuard(role) ==
    IF state = IDLE /\ role = "user"
    THEN is_open(circuit_breaker, now).cb
    ELSE circuit_breaker

\* A payload that lists the messages newest first.
prepare_batch_payload_Reversed(messages) ==
    [messages |-> [i \in 1..Len(messages) |-> messages[Len(messages) + 1 - i]]]

\* _prepare_batch_payload(messages): the "messages" entry of the request body,
\* one entry per message of the snapshot, in the order of the snapshot (map).
prepare_batch_payload(messages) ==
    [messages |-> [i \in 1..Len(messages) |-> [id |-> messages[i].id, role |-> messages[i].role]]]

\* A validation that accepts any string as a role.
MessageSchema_AnyString(role) == TRUE

\* MessageSchema.parse({role, content}) succeeds: role is a member of the
\* enum Role (z.nativeEnum); otherwise parse throws.
MessageSchema(role) == role \in Role

\* __call__(role, content) up to its await: validate (a throw of the
\* validation rejects the promise of __call__ before anything else runs),
\* enqueue, and when the condition holds move to Processing and run
\* _process_queue() up to the transport call (snapshot, payload, axios.post);
\* on an empty queue _process_queue returns at once and only __call__ is
\* left to resume.
Call(role) ==
    IF ~MessageSchema(role)
    THEN /\ last' = [Event("call", role, 0, FALSE, FALSE, <<>>) EXCEPT !.promise = "rejected"]
         /\ UNCHANGED <<legacy, legacy_last, committed, key, sync, sync_last, max_queue_size, context_template,
                        message_queue, state, processing_task, circuit_breaker, latest_ad,
                        tasks, now, next_id, evicted, outcomes, opened_at, slot_log,
                        delivered, prev>>
    ELSE /\ next_id <= MaxCalls
         /\ LET m == [id |-> next_id, role |-> role]
                q == Enqueue(message_queue, m)
                go == ShouldProcess(role)
            IN  /\ message_queue' = q
                /\ evicted' = evicted \cup (Ids(message_queue) \ Ids(q))
                /\ circuit_breaker' = BreakerAfterGuard(role)
                /\ TrackOpening
                /\ IF go
                   THEN /\ state' = PROCESSING
                        /\ processing_task' = next_id
                        /\ tasks' = tasks \cup
                             {[id |-> next_id, trigger |-> role,
                               pc |-> IF q = <<>> THEN "settling" ELSE "post",
                               snapshot |-> q, payload |-> prepare_batch_payload(q),
                               failed |-> FALSE, kind |-> "none",
                               errors0 |-> BreakerAfterGuard(role).error_count]}
                   ELSE UNCHANGED <<state, processing_task, tasks>>
                /\ last' = Event("call", role, next_id, go, FALSE, IF go THEN q ELSE <<>>)
         /\ next_id' = next_id + 1
         /\ UNCHANGED <<legacy, legacy_last, committed, key, sync, sync_last, max_queue_size, context_template, latest_ad, now, outcomes, slot_log, delivered, prev>>

\* The task t of `tasks` moved on to position pc, failed or not.
Moved(t, pc, failed) == (tasks \ {t}) \cup {[t EXCEPT !.pc = pc, !.failed = failed]}

ResponseKind == {"ads", "empty", "malformed"}

\* A _handle_response whose catch records the error but leaves the slot as it is.
handle_response_MalformedKeepsAd(kind, ads) ==
    IF kind = "malformed"
    THEN [cb |-> record_error(circuit_breaker, now), ad |-> latest_ad]
    ELSE IF Len(ads) > 0
         THEN [cb |-> circuit_breaker, ad |-> ads[1]]
         ELSE [cb |-> circuit_breaker, ad |-> latest_ad]

\* A _handle_response that counts a valid response without ads as an error.
handle_response_EmptyIsError(kind, ads) ==
    IF kind = "malformed"
    THEN [cb |-> record_error(circuit_breaker, now), ad |-> Null]
    ELSE IF Len(ads) > 0
         THEN [cb |-> circuit_breaker, ad |-> ads[1]]
         ELSE [cb |-> record_error(circuit_breaker, now), ad |-> latest_ad]

\* A _handle_response that clears the slot when the list of ads is empty.
handle_response_EmptyClears(kind, ads) ==
    IF kind = "malformed"
    THEN [cb |-> record_error(circuit_breaker, now), ad |-> Null]
    ELSE IF Len(ads) > 0
         THEN [cb |-> circuit_breaker, ad |-> ads[1]]
         ELSE [cb |-> circuit_breaker, ad |-> Null]

\* _handle_response(response_data): the breaker and the ad slot afterwards.
\* AdResponseSchema.parse throws on a malformed body; the catch records an
\* error and clears the slot, and nothing is rethrown.
handle_response(kind, ads) ==
    IF kind = "malformed"
    THEN [cb |-> record_error(circuit_breaker, now), ad |-> Null]
    ELSE IF Len(ads) > 0
         THEN [cb |-> circuit_breaker, ad |-> ads[1]]
         ELSE [cb |-> circuit_breaker, ad |-> latest_ad]

\* The ads of the response body to the request of the task with this id: two
\* ads of its own for "ads", none for "empty" (and for a malformed body).
ResponseAds(kind, id) == IF kind = "ads" THEN <<2 * id - 1, 2 * id>> ELSE <<>>

\* axios.post resolves: _send_request resumes and runs _handle_response.
TransportResponds(t, kind) ==
    /\ t.pc = "post"
    /\ LET r == handle_response(kind, ResponseAds(kind, t.id))
       IN  /\ circuit_breaker' = r.cb
           /\ TrackOpening
           /\ latest_ad' = r.ad
    /\ slot_log' = IF kind = "empty" THEN slot_log
                   ELSE [ev |-> kind, ads |-> ResponseAds(kind, t.id)]
    /\ tasks' = (tasks \ {t}) \cup {[t EXCEPT !.pc = "fetched", !.kind = kind]}
    /\ last' = Event("response", kind, t.id, FALSE, FALSE, t.snapshot)
    /\ UNCHANGED <<legacy, legacy_last, committed, key, sync, sync_last, max_queue_size, context_template, message_queue, state, processing_task, now, next_id,
                   evicted, outcomes, delivered, prev>>

\* axios.post rejects (timeout, network error, non-2xx): the catch of
\* _send_request logs and rethrows, and _fetch_ad_batch rejects.
TransportFails(t) ==
    /\ t.pc = "post"
    /\ tasks' = Moved(t, "fetched", TRUE)
    /\ last' = Event("transport_error", "none", t.id, FALSE, FALSE, t.snapshot)
    /\ UNCHANGED <<legacy, legacy_last, committed, key, sync, sync_last, max_queue_size, context_template, message_queue, state, processing_task, circuit_breaker,
                   latest_ad, now, next_id, evicted, outcomes, opened_at, slot_log, delivered, prev>>

\* A commit that leaves the last message of the batch in the queue.
Commit_OneShort(q, snapshot) == Slice(q, Len(snapshot) - 1)

\* The queue after _process_queue resumes from a _fetch_ad_batch that resolved.
Commit(q, snapshot) == Slice(q, Len(snapshot))

\* A _process_queue that removes the snapshot's length also when the fetch failed.
AfterFetch_CommitAlways(t) ==
    [queue |-> Commit(message_queue, t.snapshot),
     cb |-> IF t.failed THEN record_error(circuit_breaker, now) ELSE circuit_breaker]

\* A catch of _process_queue that also empties the queue.
AfterFetch_ClearsOnFailure(t) ==
    IF t.failed
    THEN [queue |-> <<>>, cb |-> record_error(circuit_breaker, now)]
    ELSE [queue |-> Commit(message_queue, t.snapshot), cb |-> circuit_breaker]

\* A _process_queue that keeps the batch queued when the response was malformed.
AfterFetch_MalformedRetries(t) ==
    IF t.failed
    THEN [queue |-> message_queue, cb |-> record_error(circuit_breaker, now)]
    ELSE IF t.kind = "malformed"
         THEN [queue |-> message_queue, cb |-> circuit_breaker]
         ELSE [queue |-> Commit(message_queue, t.snapshot), cb |-> circuit_breaker]

\* The try/catch of _process_queue around the awaited fetch: the queue and the
\* breaker after it. The commit runs only when the fetch resolved; the catch
\* records an error (and rethrows).
AfterFetch(t) ==
    IF t.failed
    THEN [queue |-> message_queue, cb |-> record_error(circuit_breaker, now)]
    ELSE [queue |-> Commit(message_queue, t.snapshot), cb |-> circuit_breaker]

\* _process_queue resumes from `await this._fetch_ad_batch(...)`: it commits
\* the queue, or in its catch records an error and rethrows.
ProcessQueueResumes(t) ==
    /\ t.pc = "fetched"
    /\ message_queue' = AfterFetch(t).queue
    /\ circuit_breaker' = AfterFetch(t).cb
    /\ TrackOpening
    /\ tasks' = Moved(t, "settling", t.failed)
    /\ committed' = IF t.failed THEN committed ELSE committed \cup Ids(t.snapshot)
    /\ last' = Event(IF t.failed THEN "rethrow" ELSE "commit", t.kind, t.id, FALSE, FALSE,
                     t.snapshot)
    /\ UNCHANGED <<legacy, legacy_last, key, sync, sync_last, max_queue_size, context_template, state, processing_task, latest_ad, now, next_id,
                   evicted, outcomes, slot_log, delivered, prev>>

\* The breaker after the catch clause of __call__ (entered when the task rejected).
CallCatch(failed) ==
    IF failed THEN record_error(circuit_breaker, now) ELSE circuit_breaker

\* A __call__ that goes back to Idle only when the task resolved.
CallFinally_OnlyOnSuccess(t) ==
    IF t.failed
    THEN [state |-> state, processing_task |-> processing_task]
    ELSE [state |-> IDLE, processing_task |-> Null]

\* The client state after the finally clause of __call__.
CallFinally(t) == [state |-> IDLE, processing_task |-> Null]

\* A __call__ whose catch clause rethrows.
CallPromise_Rethrows(failed) == IF failed THEN "rejected" ELSE "resolved"

\* How the promise returned by __call__ settles: the catch clause logs and
\* records the error and does not rethrow.
CallPromise(failed) == "resolved"

\* __call__ resumes from `await this._processing_task`: catch, then finally;
\* the promise returned by __call__ settles.
CallResumes(t) ==
    /\ t.pc = "settling"
    /\ circuit_breaker' = CallCatch(t.failed)
    /\ TrackOpening
    /\ state' = CallFinally(t).state
    /\ processing_task' = CallFinally(t).processing_task
    /\ tasks' = tasks \ {t}
    /\ outcomes' = Append(outcomes, IF t.failed THEN "fail" ELSE "ok")
    /\ last' = [Event("settle", t.kind, t.id, FALSE, t.failed, t.snapshot)
                 EXCEPT !.promise = CallPromise(t.failed)]
    /\ prev' = [id |-> t.id, snap |-> t.snapshot, failed |-> t.failed, kind |-> t.kind]
    /\ UNCHANGED <<legacy, legacy_last, committed, key, sync, sync_last, max_queue_size, context_template, message_queue, latest_ad, now, next_id, evicted,
                   slot_log, delivered>>

\* A get_latest_ad() that returns the slot without clearing it.
get_latest_ad_NoClear(ad) == [ret |-> ad, latest_ad |-> ad]

\* get_latest_ad() on the slot content ad: the returned value and the slot afterwards.
get_latest_ad(ad) == [ret |-> ad, latest_ad |-> Null]

\* get_latest_ad(): returns the slot and clears it.
GetLatestAd ==
    /\ latest_ad' = get_latest_ad(latest_ad).latest_ad
    /\ LET got == get_latest_ad(latest_ad).ret
       IN  /\ last' = Event("get_latest_ad", "none", got, FALSE, got # Null, <<>>)
           /\ slot_log' = [ev |-> "read", ads |-> <<>>]
           /\ delivered' = IF got # Null THEN Append(delivered, got) ELSE delivered
    /\ UNCHANGED <<legacy, legacy_last, committed, key, sync, sync_last, max_queue_size, context_template, message_queue, state, processing_task, circuit_breaker,
                   tasks, now, next_id, evicted, outcomes, opened_at, prev>>

\* The fields of the ad with the id a, as the server sent them.
Ad(a) ==
    [ad_title |-> <<"title ", ToString(a)>>,
     ad_description |-> <<"description ", ToString(a)>>,
     placement_template |-> <<"placement ", ToString(a)>>]

\* AsyncAdcortexChatClient.create_context(): formats the ad in the slot, and
\* returns "" when the slot is empty.
create_context(template, slot) ==
    IF slot # Null THEN format_context(template, Ad(slot)) ELSE <<>>

\* create_context() is called; the history keeps in `got` the ad that the
\* call before it returned, when that call was a get_latest_ad().
CreateContext ==
    /\ last' = [Event("create_context", "none", 0, FALSE, latest_ad # Null, <<>>)
                 EXCEPT !.ctx = create_context(context_template, latest_ad),
                        !.got = IF last.op = "get_latest_ad" THEN last.id ELSE Null]
    /\ UNCHANGED <<legacy, legacy_last, committed, key, sync, sync_last, max_queue_size, context_template, message_queue, state, processing_task,
                   circuit_breaker, latest_ad, tasks, now, next_id, evicted, outcomes,
                   opened_at, slot_log, delivered, prev>>

\* An is_healthy() that counts a full queue as healthy.
is_healthy_LessOrEqual(cb, q, t) ==
    [ret |-> ~is_open(cb, t).ret /\ Len(q) <= max_queue_size, cb |-> is_open(cb, t).cb]

\* is_healthy(): the returned value and the breaker afterwards.
is_healthy(cb, q, t) ==
    [ret |-> ~is_open(cb, t).ret /\ Len(q) < max_queue_size, cb |-> is_open(cb, t).cb]

IsHealthy ==
    /\ circuit_breaker' = is_healthy(circuit_breaker, message_queue, now).cb
    /\ TrackOpening
    /\ last' = Event("is_healthy", "none", 0, FALSE,
                     is_healthy(circuit_breaker, message_queue, now).ret, <<>>)
    /\ UNCHANGED <<legacy, legacy_last, committed, key, sync, sync_last, max_queue_size, context_template, message_queue, state, processing_task, latest_ad,
                   tasks, now, next_id, evicted, outcomes, slot_log, delivered, prev>>

\* Time passes.
Tick ==
    /\ now < MaxTime
    /\ now' = now + 1
    /\ last' = Event("tick", "none", 0, FALSE, FALSE, <<>>)
    /\ UNCHANGED <<legacy, legacy_last, committed, key, sync, sync_last, max_queue_size, context_template, message_queue, state, processing_task, circuit_breaker,
                   latest_ad, tasks, next_id, evicted, outcomes, opened_at, slot_log, delivered, prev>>

Next ==
    \/ \E role \in Role : Call(role)
    \/ \E t \in tasks, kind \in ResponseKind : TransportResponds(t, kind)
    \/ \E t \in tasks : TransportFails(t)
    \/ \E t \in tasks : ProcessQueueResumes(t)
    \/ \E t \in tasks : CallResumes(t)
    \/ GetLatestAd
    \/ CreateContext
    \/ IsHealthy
    \/ Tick

Spec == Init /\ [][Next]_vars

(* ------------------------- roles at run time -------------------------- *)
\* The role strings a caller can pass at run time: the members of Role and
\* one string that is not a member.
AnyRole == Role \cup {"system"}

\* The client used by a caller that also passes roles outside the enum.
NextRoles ==
    \/ \E role \in AnyRole \ Role : Call(role)
    \/ Next

(* ---------------------- CircuitBreaker on its own --------------------- *)
\* record_error() called on the breaker.
CBRecordError ==
    /\ circuit_breaker.error_count < MaxErrors
    /\ circuit_breaker' = record_error(circuit_breaker, now)
    /\ TrackOpening
    /\ last' = Event("record_error", "none", 0, FALSE, FALSE, <<>>)
    /\ UNCHANGED <<legacy, legacy_last, committed, key, sync, sync_last, max_queue_size, context_template, message_queue, state, processing_task, latest_ad, tasks,
                   now, next_id, evicted, outcomes, slot_log, delivered, prev>>

\* is_open() called on the breaker.
CBIsOpen ==
    /\ circuit_breaker' = is_open(circuit_breaker, now).cb
    /\ TrackOpening
    /\ last' = Event("is_open", "none", 0, FALSE, is_open(circuit_breaker, now).ret, <<>>)
    /\ UNCHANGED <<legacy, legacy_last, committed, key, sync, sync_last, max_queue_size, context_template, message_queue, state, processing_task, latest_ad, tasks,
                   now, next_id, evicted, outcomes, slot_log, delivered, prev>>

\* reset() called on the breaker.
CBReset ==
    /\ circuit_breaker' = reset(circuit_breaker)
    /\ TrackOpening
    /\ last' = Event("reset", "none", 0, FALSE, FALSE, <<>>)
    /\ UNCHANGED <<legacy, legacy_last, committed, key, sync, sync_last, max_queue_size, context_template, message_queue, state, processing_task, latest_ad, tasks,
                   now, next_id, evicted, outcomes, slot_log, delivered, prev>>

NextCB ==
    \/ CBRecordError
    \/ CBIsOpen
    \/ CBReset
    \/ Tick

SpecCB == Init /\ [][NextCB]_vars

\* The continuations of a submission always get to run: every transport call
\* returns or fails, and the event loop resumes every settled await.
Fairness ==
    /\ WF_vars(\E t \in tasks : (\E kind \in ResponseKind : TransportResponds(t, kind))
                                   \/ TransportFails(t))
    /\ WF_vars(\E t \in tasks : ProcessQueueResumes(t))
    /\ WF_vars(\E t \in tasks : CallResumes(t))

\* The client configured with the largest queue, the largest threshold and
\* the longest cooldown of the bounds.
InitFair ==
    /\ Init
    /\ max_queue_size = MaxQueueSize
    /\ circuit_breaker.threshold = MaxThreshold
    /\ circuit_breaker.timeout = MaxTimeout

FairSpec == InitFair /\ [][Next]_vars /\ Fairness

SpecRoles == InitFair /\ [][NextRoles]_vars

TypeOK ==
    /\ max_queue_size \in 0..MaxQueueSize
    /\ state \in ClientState
    /\ processing_task \in {Null} \cup 1..MaxCalls
    /\ latest_ad \in {Null} \cup 1..(2 * MaxCalls)
    /\ now \in 0..MaxTime
    /\ circuit_breaker.error_count \in Nat

(* ------------------- AdcortexChatClient (synchronous) ----------------- *)
\* The variables of the message-count client.
LegacyVars == <<legacy, legacy_last>>

\* The variables of the AsyncAdcortexChatClient and its history.
AsyncVars == <<committed, key, max_queue_size, context_template, message_queue, state, processing_task,
               circuit_breaker, latest_ad, tasks, next_id, evicted, outcomes, opened_at,
               slot_log, delivered, prev, last>>

SyncEvent(op, role, id, started) ==
    [op |-> op, role |-> role, id |-> id, started |-> started, pre |-> sync]

\* __call__(role, content) of the synchronous variant up to its await. When
\* the condition holds, _process_queue takes the snapshot and calls
\* _fetch_ad_batch, which calls _send_request WITHOUT awaiting it: the request
\* is posted and its promise dropped, _fetch_ad_batch resolves at once, and
\* _process_queue is suspended on a promise that is already resolved.
SyncCall(role) ==
    /\ sync.alive
    /\ sync.next_id <= MaxCalls
    /\ LET m == [id |-> sync.next_id, role |-> role]
           q0 == sync.message_queue
           q == Append(IF Len(q0) >= sync.max_queue_size THEN Shift(q0) ELSE q0, m)
           asked == sync.state = IDLE /\ role = "user"
           go == asked /\ ~is_open(sync.circuit_breaker, now).ret
       IN  /\ sync' = [sync EXCEPT
                 !.message_queue = q,
                 !.evicted = @ \cup (Ids(q0) \ Ids(q)),
                 !.circuit_breaker = IF asked THEN is_open(@, now).cb ELSE @,
                 !.state = IF go THEN PROCESSING ELSE @,
                 !.calls = IF go THEN @ \cup {[id |-> m.id, pc |-> "fetched", snapshot |-> q]}
                           ELSE @,
                 !.requests = IF go
                              THEN @ \cup {[id |-> m.id, payload |-> prepare_batch_payload(q)]}
                              ELSE @,
                 !.next_id = @ + 1]
           /\ sync_last' = SyncEvent("call", role, m.id, go)
    /\ UNCHANGED <<LegacyVars, AsyncVars, now>>

\* _process_queue resumes from `await this._fetch_ad_batch(...)`, which has
\* resolved whatever becomes of the request: it commits the queue.
SyncProcessQueueResumes(c) ==
    /\ sync.alive
    /\ c.pc = "fetched"
    /\ sync' = [sync EXCEPT
          !.message_queue = Commit(@, c.snapshot),
          !.calls = (@ \ {c}) \cup {[c EXCEPT !.pc = "settling"]}]
    /\ sync_last' = SyncEvent("commit", "none", c.id, FALSE)
    /\ UNCHANGED <<LegacyVars, AsyncVars, now>>

\* __call__ resumes from `await this._process_queue()`, which resolved: the
\* catch is skipped and the finally sets the state to Idle.
SyncCallResumes(c) ==
    /\ sync.alive
    /\ c.pc = "settling"
    /\ sync' = [sync EXCEPT !.state = IDLE, !.calls = @ \ {c}]
    /\ sync_last' = SyncEvent("settle", "none", c.id, FALSE)
    /\ UNCHANGED <<LegacyVars, AsyncVars, now>>

\* _handle_response of the synchronous variant: the slot afterwards. Its catch
\* only logs: no error is recorded and the slot is left as it is.
sync_handle_response(kind, ads) ==
    IF kind # "malformed" /\ Len(ads) > 0 THEN ads[1] ELSE sync.latest_ad

\* The I/O callback of a request runs after the pending continuations: the
\* __call__ that posted the request has settled by then.
Answerable(r) == sync.alive /\ r \in sync.requests /\ \A c \in sync.calls : c.id # r.id

\* axios.post resolves: _send_request resumes and runs _handle_response.
SyncTransportResponds(r, kind) ==
    /\ Answerable(r)
    /\ sync' = [sync EXCEPT
          !.latest_ad = sync_handle_response(kind, ResponseAds(kind, r.id)),
          !.requests = @ \ {r}]
    /\ sync_last' = SyncEvent("response", kind, r.id, FALSE)
    /\ UNCHANGED <<LegacyVars, AsyncVars, now>>

\* What the runtime does with a promise rejection that no one handles: it
\* reports it and goes on, or it terminates the process.
Unhandled == {"reported", "terminated"}

\* axios.post rejects: the catch of _send_request logs and rethrows, and the
\* promise of _send_request, which nothing awaits, rejects unhandled.
SyncTransportFails(r, outcome) ==
    /\ Answerable(r)
    /\ sync' = [sync EXCEPT !.requests = @ \ {r}, !.alive = (outcome = "reported")]
    /\ sync_last' = SyncEvent("transport_error", outcome, r.id, FALSE)
    /\ UNCHANGED <<LegacyVars, AsyncVars, now>>

\* Time passes.
SyncTick ==
    /\ now < MaxTime
    /\ now' = now + 1
    /\ sync_last' = SyncEvent("tick", "none", 0, FALSE)
    /\ UNCHANGED <<LegacyVars, AsyncVars, sync>>

NextSync ==
    \/ \E role \in Role : SyncCall(role)
    \/ \E c \in sync.calls : SyncProcessQueueResumes(c)
    \/ \E c \in sync.calls : SyncCallResumes(c)
    \/ \E r \in sync.requests, kind \in ResponseKind : SyncTransportResponds(r, kind)
    \/ \E r \in sync.requests, outcome \in Unhandled : SyncTransportFails(r, outcome)
    \/ SyncTick

SpecSync == Init /\ [][NextSync]_vars

(* ---------------------------- constructor ----------------------------- *)
\* `new AsyncAdcortexChatClient(...)` under way, with any api_key argument and
\* any environment value: the fields are those of Init, _api_key is not
\* assigned yet.
InitNew ==
    /\ \E k \in KeyArgs, e \in EnvValues :
          key = [arg |-> k, env |-> e, field |-> Missing, ended |-> "running"]
    /\ InitLegacyWith(3, 2)
    /\ max_queue_size \in 0..MaxQueueSize
    /\ context_template = DEFAULT_CONTEXT_TEMPLATE
    /\ message_queue = <<>>
    /\ state = IDLE
    /\ processing_task = Null
    /\ circuit_breaker \in {NewCircuitBreaker(th, MaxTimeout) : th \in 1..MaxThreshold}
    /\ latest_ad = Null
    /\ tasks = {}
    /\ now = 0
    /\ next_id = 1
    /\ evicted = {}
    /\ outcomes = <<>>
    /\ opened_at = Null
    /\ slot_log = [ev |-> "new", ads |-> <<>>]
    /\ delivered = <<>>
    /\ prev = [id |-> 0, snap |-> <<>>, failed |-> FALSE, kind |-> "none"]
    /\ committed = {}
    /\ sync = [max_queue_size |-> max_queue_size, message_queue |-> <<>>, state |-> IDLE,
               circuit_breaker |-> circuit_breaker, latest_ad |-> Null,
               calls |-> {}, requests |-> {}, next_id |-> 1, evicted |-> {},
               alive |-> TRUE]
    /\ sync_last = [op |-> "new", role |-> "none", id |-> 0, started |-> FALSE, pre |-> sync]
    /\ last = [op |-> "new", role |-> "none", id |-> 0, started |-> FALSE, ret |-> FALSE,
               snap |-> <<>>, t |-> 0, pre_state |-> IDLE, pre_queue |-> <<>>,
               pre_cb |-> circuit_breaker, pre_tasks |-> {}, pre_ad |-> Null,
               pre_log |-> slot_log, promise |-> "none", ctx |-> <<>>, got |-> Null]

\* The constructor resolves the key and ends: it returns the client or throws.
Construct ==
    /\ key.ended = "running"
    /\ key' = construct(key.arg, key.env)
    /\ last' = Event("construct", "none", 0, FALSE, FALSE, <<>>)
    /\ UNCHANGED <<legacy, legacy_last, committed, sync, sync_last, max_queue_size, context_template, message_queue, state,
                   processing_task, circuit_breaker, latest_ad, tasks, now, next_id, evicted,
                   outcomes, opened_at, slot_log, delivered, prev>>

NextNew == Construct

SpecNew == InitNew /\ [][NextNew]_vars

(* ------------------------- create_context(ad) ------------------------- *)
\* The tokens that the templates of the bound are made of.
TemplateTokens ==
    {"Product: ", " - ", "{ad_title}", "{ad_description}", "{placement_template}", "{link}"}

Templates == UNION {[1..n -> TemplateTokens] : n \in 0..MaxTemplateLen}

\* Ads given to create_context: one of plain text, one whose title is the
\* text of a placeholder, one whose title has a replacement pattern in it.
SampleAds == 1..3

SampleAd(k) ==
    [ad_title |-> IF k = 1 THEN <<"Laptop">>
                  ELSE IF k = 2 THEN <<"{ad_description}">> ELSE <<"Deal ", "$&">>,
     ad_description |-> <<"Fast">>,
     placement_template |-> <<"Try it">>]

\* A client constructed with a context template of the bound.
InitFmt ==
    /\ \E template \in Templates : InitWith(template)
    /\ max_queue_size = MaxQueueSize
    /\ circuit_breaker.threshold = MaxThreshold

\* AdcortexChatClient.create_context(latest_ad) called with the ad k.
CreateContextOf(k) ==
    /\ last' = [Event("create_context_of", "none", k, FALSE, FALSE, <<>>)
                 EXCEPT !.ctx = format_context(context_template, SampleAd(k))]
    /\ UNCHANGED <<legacy, legacy_last, committed, key, sync, sync_last, max_queue_size, context_template, message_queue, state,
                   processing_task, circuit_breaker, latest_ad, tasks, now, next_id, evicted,
                   outcomes, opened_at, slot_log, delivered, prev>>

NextFmt == \E k \in SampleAds : CreateContextOf(k)

SpecFmt == InitFmt /\ [][NextFmt]_vars

(* -------------- AdcortexChatClient (message count), actions ----------- *)
\* _should_show_ad() on the client l
should_show_ad(l) ==
    IF Len(l.shown_ads) = 0
    THEN GreaterOrEqual(Number(l.messages), Get(l.fields, "num_messages_before_ad"))
    ELSE LET last_shown_ad == l.shown_ads[Len(l.shown_ads)]
             messages_since_last_ad ==
                 Minus(Number(l.messages), Get(last_shown_ad, "messageCount"))
         IN  GreaterOrEqual(messages_since_last_ad, Get(l.fields, "num_messages_between_ads"))

\* call(role, content) up to its await: push the message, and when
\* _should_show_ad() holds run _fetch_ad(), which returns {ads: []} without a
\* request when there are too few messages and otherwise posts the request.
LegacyCall ==
    /\ legacy.messages < MaxMessages
    /\ LET pushed == [legacy EXCEPT !.messages = @ + 1]
           posts == /\ should_show_ad(pushed)
                    /\ ~LessThan(Number(pushed.messages),
                                 Get(pushed.fields, "num_messages_before_ad"))
       IN  /\ legacy' = IF posts
                        THEN [pushed EXCEPT !.requests = @ \cup {pushed.next_id},
                                            !.next_id = @ + 1]
                        ELSE pushed
           /\ legacy_last' = [op |-> "call", attempted |-> posts, pre |-> legacy]
    /\ UNCHANGED <<AsyncVars, sync, sync_last, now>>

\* The ad of the response to the request r.
LegacyAd(r) == r

\* _handle_response(response_data) on the client l, ads being the list of the
\* response: the first ad is stored and recorded in shown_ads with the
\* number of messages at that moment.
legacy_handle_response(l, ads) ==
    IF Len(ads) > 0
    THEN [l EXCEPT !.latest_ad = ads[1],
                   !.shown_ads = Append(@, [ad |-> ads[1],
                                            message_count |-> Number(l.messages)])]
    ELSE l

LegacyResponseKind == {"ads", "empty"}

\* axios.post resolves: _send_request returns the body, _fetch_ad runs
\* _handle_response and call() returns the ad (or {}).
LegacyTransportResponds(r, kind) ==
    /\ r \in legacy.requests
    /\ legacy' = [legacy_handle_response(legacy, IF kind = "ads" THEN <<LegacyAd(r)>> ELSE <<>>)
                   EXCEPT !.requests = @ \ {r}]
    /\ legacy_last' = [op |-> kind, attempted |-> FALSE, pre |-> legacy]
    /\ UNCHANGED <<AsyncVars, sync, sync_last, now>>

\* axios.post rejects: the catch of _send_request returns null and call()
\* returns null.
LegacyTransportFails(r) ==
    /\ r \in legacy.requests
    /\ legacy' = [legacy EXCEPT !.requests = @ \ {r}]
    /\ legacy_last' = [op |-> "error", attempted |-> FALSE, pre |-> legacy]
    /\ UNCHANGED <<AsyncVars, sync, sync_last, now>>

NextLegacy ==
    \/ LegacyCall
    \/ \E r \in legacy.requests, kind \in LegacyResponseKind : LegacyTransportResponds(r, kind)
    \/ \E r \in legacy.requests : LegacyTransportFails(r)

\* The message-count client constructed with any two counts of the bounds.
InitLegacy ==
    /\ InitClients(DEFAULT_CONTEXT_TEMPLATE)
    /\ max_queue_size = MaxQueueSize
    /\ circuit_breaker.threshold = MaxThreshold
    /\ \E b \in 1..MaxCount, w \in 1..MaxCount : InitLegacyWith(b, w)

SpecLegacy == InitLegacy /\ [][NextLegacy]_vars

(* ============================== claims ================================ *)
Msg(id, role) == [id |-> id, role |-> role]

\* The messages of q whose ids are not in the set ids, in the order of q.
Without(q, ids) == LET Keep(m) == m.id \notin ids IN SelectSeq(q, Keep)

\* What the drop-oldest rule gives for pushing m on q0 with the bound n.
DropOldest(q0, m, n) == Append(SubSeq(q0, IF Len(q0) >= n THEN 2 ELSE 1, Len(q0)), m)

\* The __call__ that produced this state put its message at the tail of the queue.
Enqueued ==
    /\ message_queue # <<>>
    /\ message_queue[Len(message_queue)] = Msg(last.id, last.role)

\* C1: single-flight. At most one submission of the client is in progress at
\* any time and at most one transport request is outstanding; a __call__ that
\* starts a submission found no earlier submission unfinished.
C1_SingleFlight ==
    /\ Cardinality(tasks) <= 1
    /\ Cardinality({t \in tasks : t.pc = "post"}) <= 1
    /\ (last.op = "call" /\ last.started) => last.pre_tasks = {}

\* A user-role __call__ arrived while a transport request was outstanding.
C1_Witness ==
    /\ last.op = "call" /\ last.role = "user"
    /\ \E t \in last.pre_tasks : t.pc = "post"
    /\ \E t \in tasks : t.pc = "post"

\* C2: the length of the message queue never exceeds max_queue_size, for
\* every configured max_queue_size.
C2_QueueBounded == Len(message_queue) <= max_queue_size

\* C3: a successful commit removes exactly the messages of the snapshot, and
\* every other message (those enqueued during the flight) stays queued in
\* enqueue order (stated here for the bounds max_queue_size >= 1 only).
C3_CommitRemovesSnapshot ==
    (last.op = "commit" /\ max_queue_size >= 1)
       => message_queue = Without(last.pre_queue, Ids(last.snap))

\* C4: a submission that fails at the transport removes no message: none of
\* its steps changes the queue, and when it settles every message of the
\* snapshot that overflow has not evicted is still queued, in snapshot order,
\* at the head of the queue.
C4_FailureKeepsQueue ==
    /\ (last.op \in {"transport_error", "rethrow"} \/ (last.op = "settle" /\ last.ret))
          => message_queue = last.pre_queue
    /\ (last.op = "settle" /\ last.ret)
          => IsPrefix(Without(last.snap, evicted), message_queue)

\* A failed submission settled after overflow evicted part of its snapshot.
C4_Witness ==
    /\ last.op = "settle" /\ last.ret
    /\ Ids(last.snap) \cap evicted # {}
    /\ Without(last.snap, evicted) # <<>>
    /\ Len(message_queue) > Len(Without(last.snap, evicted))

AllFailed(o) == \A i \in 1..Len(o) : o[i] = "fail"

\* C5: on a fresh client with threshold T, when the T-th of T consecutive
\* submissions that failed at the transport settles, the breaker is open and
\* is_healthy() is false (unless the cooldown of the opening has run out
\* in the meantime).
C5_ThresholdFailuresOpen ==
    (/\ last.op = "settle"
     /\ Len(outcomes) = circuit_breaker.threshold
     /\ AllFailed(outcomes)
     /\ (circuit_breaker.reset_time = Null \/ now < circuit_breaker.reset_time))
       => /\ circuit_breaker.is_open
          /\ ~is_healthy(circuit_breaker, message_queue, now).ret

\* C6: once the breaker has opened at time opened_at, an is_open() made
\* before opened_at + timeout returns true and changes nothing; one made at
\* or after it returns false and leaves the breaker closed with error_count
\* 0; and is_open() returns false for as long as error_count is below the
\* threshold.
C6_IsOpenFollowsCooldown ==
    last.op = "is_open" =>
       /\ last.pre_cb.is_open =>
             IF last.t < opened_at + circuit_breaker.timeout
             THEN last.ret /\ circuit_breaker = last.pre_cb
             ELSE /\ ~last.ret
                  /\ ~circuit_breaker.is_open
                  /\ circuit_breaker.error_count = 0
       /\ last.pre_cb.error_count < circuit_breaker.threshold => ~last.ret
       /\ ~last.ret => ~circuit_breaker.is_open

\* is_open() was called on an open breaker exactly when the cooldown ended.
C6_Witness ==
    /\ last.op = "is_open"
    /\ last.pre_cb.is_open
    /\ last.t = opened_at + circuit_breaker.timeout
    /\ ~last.ret

\* C7: when the __call__ that triggered a submission settles the state is
\* Idle, whatever the outcome; and when every transport call returns or
\* fails, every Processing state is followed by Idle.
C7_ProcessingEndsIdle ==
    /\ [](last.op = "settle" => state = IDLE /\ processing_task = Null)
    /\ (state = PROCESSING) ~> (state = IDLE)

\* A submission that failed at the transport has settled.
C7_Witness ==
    /\ last.op = "settle" /\ last.ret
    /\ last.pre_state = PROCESSING
    /\ state = IDLE

\* C8: an ai-role __call__ only enqueues: it starts no submission and leaves
\* the state and the submissions in progress as they were; every submission
\* was started by a user-role __call__.
C8_AiNeverTriggers ==
    /\ \A t \in tasks : t.trigger = "user"
    /\ (last.op = "call" /\ last.role = "ai")
          => /\ ~last.started
             /\ state = last.pre_state
             /\ tasks = last.pre_tasks
             /\ Enqueued

\* An ai-role __call__ on an Idle client with a closed breaker.
C8_Witness ==
    /\ last.op = "call" /\ last.role = "ai"
    /\ last.pre_state = IDLE
    /\ ~last.pre_cb.is_open
    /\ Enqueued

\* C9: a __call__ made while the breaker is open and its cooldown has not
\* run out enqueues its message, starts no submission and leaves the state
\* unchanged (Idle stays Idle).
C9_OpenBreakerBlocks ==
    (/\ last.op = "call"
     /\ last.pre_cb.is_open
     /\ last.t < opened_at + circuit_breaker.timeout)
       => /\ ~last.started
          /\ tasks = last.pre_tasks
          /\ state = last.pre_state
          /\ Enqueued

\* A user-role __call__ on an Idle client during the cooldown.
C9_Witness ==
    /\ last.op = "call" /\ last.role = "user"
    /\ last.pre_state = IDLE
    /\ last.pre_cb.is_open
    /\ last.t < opened_at + circuit_breaker.timeout
    /\ state = IDLE

\* C10: a __call__ made while Processing is enqueued under the drop-oldest
\* rule, starts no submission, leaves the state Processing and leaves the
\* submission in flight, with its snapshot, untouched.
C10_EnqueueWhileProcessing ==
    (last.op = "call" /\ last.pre_state = PROCESSING)
       => /\ ~last.started
          /\ state = PROCESSING
          /\ tasks = last.pre_tasks
          /\ message_queue = DropOldest(last.pre_queue, Msg(last.id, last.role), max_queue_size)

\* A user-role __call__ made while Processing that overflowed the queue.
C10_Witness ==
    /\ last.op = "call" /\ last.role = "user"
    /\ last.pre_state = PROCESSING
    /\ max_queue_size >= 1
    /\ Len(last.pre_queue) >= max_queue_size
    /\ tasks # {}

\* C11: a get_latest_ad() that follows a response with ads (no malformed
\* response and no other read in between) returns the first ad of that
\* response; one that follows another read, with no response with ads in
\* between, returns null; and no ad is returned twice.
C11_AdDeliveredOnce ==
    /\ last.op = "get_latest_ad" =>
          /\ last.pre_log.ev = "ads" => last.ret /\ last.id = last.pre_log.ads[1]
          /\ last.pre_log.ev = "read" => ~last.ret /\ last.id = Null
          /\ latest_ad = Null
    /\ \A i, j \in 1..Len(delivered) : i # j => delivered[i] # delivered[j]

\* A second get_latest_ad() after the one that returned the fetched ad.
C11_Witness ==
    /\ last.op = "get_latest_ad"
    /\ last.pre_log.ev = "read"
    /\ Len(delivered) = 1
    /\ ~last.ret

\* The submission that took the step `last` was started with this error_count.
StartedWith(n) == \E t \in last.pre_tasks : t.id = last.id /\ t.errors0 = n

\* C12: a malformed response clears the ad slot (a cached ad included) and
\* records exactly one error; the later steps of its submission record none,
\* so that when the triggering __call__ settles the slot is empty, the
\* promise has not failed and, unless a cooldown opened by that error has
\* run out, error_count is 1 higher than when the submission started.
C12_MalformedResponse ==
    /\ (last.op = "response" /\ last.role = "malformed")
          => /\ latest_ad = Null
             /\ circuit_breaker.error_count = last.pre_cb.error_count + 1
    /\ (last.op \in {"commit", "settle"} /\ last.role = "malformed")
          => /\ latest_ad = Null
             /\ circuit_breaker = last.pre_cb
    /\ (last.op = "settle" /\ last.role = "malformed")
          => /\ ~last.ret
             /\ last.promise = "resolved"
             /\ \A n \in 0..circuit_breaker.threshold :
                   (StartedWith(n) /\ (n + 1 < circuit_breaker.threshold
                                        \/ now < opened_at + circuit_breaker.timeout))
                      => circuit_breaker.error_count = n + 1

\* A malformed response arrived while an ad that was never read was cached.
C12_Witness ==
    /\ last.op = "response" /\ last.role = "malformed"
    /\ last.pre_ad # Null
    /\ latest_ad = Null
    /\ circuit_breaker.error_count = last.pre_cb.error_count + 1

\* C13: a valid response with an empty ads list is no failure: neither its
\* handling nor the later steps of its submission change the breaker
\* (error_count, open flag, reset time), however many such responses came before.
C13_EmptyIsNotAnError ==
    (last.op \in {"response", "commit", "settle"} /\ last.role = "empty")
       => circuit_breaker = last.pre_cb

\* An empty response, after an earlier submission, on a breaker that a single
\* error would open.
C13_Witness ==
    /\ last.op = "response" /\ last.role = "empty"
    /\ Len(outcomes) >= 1
    /\ circuit_breaker.threshold = 1
    /\ ~circuit_breaker.is_open
    /\ circuit_breaker.error_count = 0

\* C14 as claimed: when the transport call of a submission fails, the promise
\* returned by the triggering __call__ rejects.
C14_FailureRejectsCall ==
    (last.op = "settle" /\ last.ret) => last.promise = "rejected"

\* C14 as amended: the failure reaches __call__ (its task rejected), whose
\* catch records an error; the promise returned by __call__ resolves and the
\* client is Idle.
C14_FailureCaughtByCall ==
    (last.op = "settle" /\ last.ret)
       => /\ last.promise = "resolved"
          /\ circuit_breaker.error_count = last.pre_cb.error_count + 1
          /\ state = IDLE

\* The __call__ of a submission that failed at the transport has settled.
C14_Witness ==
    /\ last.op = "settle" /\ last.ret
    /\ last.role = "none"
    /\ last.promise = "resolved"

\* No commit has happened so far: every settled submission failed and no
\* submission in progress is past its commit.
NoCommitYet ==
    /\ AllFailed(outcomes)
    /\ \A t \in tasks : t.pc = "settling" => t.failed

Min(a, b) == IF a <= b THEN a ELSE b

\* C15: in a run without commit, after k enqueues the queue holds exactly the
\* last min(k, max_queue_size) enqueued messages in enqueue order, the
\* messages before them are the evicted ones, and each __call__ evicts at
\* most one message, the oldest, and only when the queue is full.
C15_DropOldest ==
    NoCommitYet =>
       LET k == next_id - 1
           n == Min(k, max_queue_size)
       IN  /\ Len(message_queue) = n
           /\ \A i \in 1..n : message_queue[i].id = k - n + i
           /\ evicted = 1..(k - n)
           /\ last.op = "call" =>
                 message_queue = DropOldest(last.pre_queue, Msg(last.id, last.role),
                                            max_queue_size)

\* C16 (as stated): in every reachable state of the breaker the open flag is
\* set only while reset_time lies in the future.
C16_FlagOnlyDuringCooldown ==
    circuit_breaker.is_open =>
       /\ circuit_breaker.reset_time # Null
       /\ now < circuit_breaker.reset_time

\* C16 (amended): is_open() answers true only while reset_time lies in the
\* future, and right after any is_open() the stored flag is set only while
\* reset_time lies in the future; the stored flag is never set without a
\* reset_time, but it stays set past reset_time until the next is_open().
C16_IsOpenOnlyDuringCooldown ==
    /\ circuit_breaker.is_open => circuit_breaker.reset_time # Null
    /\ last.op = "is_open" =>
          /\ last.ret => /\ last.pre_cb.is_open
                         /\ last.pre_cb.reset_time # Null
                         /\ last.t < last.pre_cb.reset_time
          /\ circuit_breaker.is_open => now < circuit_breaker.reset_time

\* is_open() answered true during a cooldown, after time had advanced.
C16_Witness ==
    /\ last.op = "is_open"
    /\ last.ret
    /\ last.t > opened_at
    /\ last.t < circuit_breaker.reset_time

\* C17: record_error() on a breaker that is already open adds one to
\* error_count and leaves reset_time and the open flag as they were.
C17_ErrorsDoNotExtendCooldown ==
    (last.op = "record_error" /\ last.pre_cb.is_open) =>
       circuit_breaker = [last.pre_cb EXCEPT !.error_count = @ + 1]

\* record_error() was called on an open breaker later than the time it opened.
C17_Witness ==
    /\ last.op = "record_error"
    /\ last.pre_cb.is_open
    /\ last.t > opened_at
    /\ circuit_breaker.is_open
    /\ circuit_breaker.reset_time = opened_at + circuit_breaker.timeout
    /\ circuit_breaker.error_count = last.pre_cb.error_count + 1

\* The ids of the sequence q, in the order of q.
IdSeq(q) == [i \in 1..Len(q) |-> q[i].id]

\* The numbers lo..hi that are not in the set ids, in increasing order.
RECURSIVE Remaining(_, _, _)
Remaining(lo, hi, ids) ==
    IF lo > hi THEN <<>>
    ELSE IF lo \in ids THEN Remaining(lo + 1, hi, ids)
         ELSE <<lo>> \o Remaining(lo + 1, hi, ids)

\* The last step was a user-role __call__ made while Idle, with the breaker
\* closed, and the submission that settled most recently had failed.
CallAfterFailure ==
    /\ last.op = "call"
    /\ last.role = "user"
    /\ last.pre_state = IDLE
    /\ ~last.pre_cb.is_open
    /\ prev.failed

\* C18 (as stated): after a failed submission that leaves the breaker closed,
\* the next user-role __call__ made while Idle starts a submission whose batch
\* is the messages of the failed batch that were not evicted, in order,
\* followed by all the messages enqueued since (on a client whose
\* max_queue_size is at least 1).
C18_RetryKeepsAllNewer ==
    (CallAfterFailure /\ max_queue_size >= 1) =>
       /\ last.started
       /\ IdSeq(last.snap) = IdSeq(Without(prev.snap, evicted))
                                \o Remaining(prev.id + 1, last.id, {})

\* C18 (amended): ... followed by the messages enqueued since that were not
\* evicted either, the triggering message last.
C18_RetryAfterFailure ==
    CallAfterFailure =>
       /\ last.started
       /\ state = PROCESSING
       /\ \E t \in tasks : t.id = last.id /\ t.pc = "post" /\ t.snapshot = last.snap
       /\ last.snap = message_queue
       /\ IsPrefix(Without(prev.snap, evicted), last.snap)
       /\ IdSeq(last.snap) = IdSeq(Without(prev.snap, evicted))
                                \o Remaining(prev.id + 1, last.id, evicted)
       /\ last.snap[Len(last.snap)] = Msg(last.id, "user")
       /\ Without(last.snap, {last.id}) = Without(last.pre_queue, evicted)

\* A retry: the batch of the new submission starts with a message of the
\* failed batch and ends with the message that triggered it.
C18_Witness ==
    /\ CallAfterFailure
    /\ last.started
    /\ Len(Without(prev.snap, evicted)) >= 1
    /\ Len(last.snap) > Len(Without(prev.snap, evicted))

\* The last step was a user-role __call__ made while Idle, at or after the end
\* of the cooldown of the latest opening of the breaker.
CallAfterCooldown ==
    /\ last.op = "call"
    /\ last.role = "user"
    /\ last.pre_state = IDLE
    /\ opened_at # Null
    /\ last.t >= opened_at + circuit_breaker.timeout

\* C19: the breaker self-heals. A user-role __call__ made while Idle at or
\* after opened_at + timeout starts a submission and leaves the breaker
\* closed; when the breaker was still open as the call arrived (the first
\* such call, no is_healthy() having closed it before), the call closes it
\* with error_count 0 and no reset_time.
C19_BreakerSelfHeals ==
    CallAfterCooldown =>
       /\ last.started
       /\ state = PROCESSING
       /\ \E t \in tasks : t.id = last.id /\ t.pc = "post"
       /\ ~circuit_breaker.is_open
       /\ last.pre_cb.is_open =>
             /\ circuit_breaker.error_count = 0
             /\ circuit_breaker.reset_time = Null

\* A message arrived after the cooldown on a breaker that was still open
\* and had counted errors: it closed the breaker and started a submission.
C19_Witness ==
    /\ CallAfterCooldown
    /\ last.pre_cb.is_open
    /\ last.pre_cb.error_count >= last.pre_cb.threshold
    /\ last.started
    /\ circuit_breaker.error_count = 0

\* The breaker that is_healthy() looked at was closed, or its cooldown had
\* run out by the time of the call.
ClosedWhenAsked ==
    \/ ~last.pre_cb.is_open
    \/ last.t >= opened_at + last.pre_cb.timeout

\* C20: is_healthy() returns true exactly when the breaker is closed (a
\* cooldown that has run out counts as closed, and is_healthy() then closes
\* the breaker) and the queue is shorter than max_queue_size; it returns
\* false whenever the queue is full.
C20_HealthyIffClosedAndRoom ==
    last.op = "is_healthy" =>
       /\ last.ret = (ClosedWhenAsked /\ Len(message_queue) < max_queue_size)
       /\ Len(message_queue) >= max_queue_size => ~last.ret
       /\ ClosedWhenAsked => ~circuit_breaker.is_open
       /\ message_queue = last.pre_queue

\* is_healthy() answered false on a client whose breaker was closed and had
\* counted no error, because its queue (of a bound of at least 1) was full.
C20_Witness ==
    /\ last.op = "is_healthy"
    /\ ~last.ret
    /\ ~last.pre_cb.is_open
    /\ last.pre_cb.error_count = 0
    /\ max_queue_size >= 1
    /\ Len(message_queue) = max_queue_size

\* The ids of q are strictly increasing: q is in enqueue order, nothing twice.
InEnqueueOrder(q) == \A i, j \in 1..Len(q) : i < j => q[i].id < q[j].id

\* C21: every batch request carries exactly the queue content at the moment
\* its submission started, in enqueue order, nothing reordered, omitted or
\* duplicated; the request keeps that content while the queue changes.
C21_BatchIsQueueInOrder ==
    /\ \A t \in tasks :
          /\ t.payload.messages = t.snapshot
          /\ InEnqueueOrder(t.payload.messages)
          /\ t.payload.messages # <<>>
    /\ (last.op = "call" /\ last.started) =>
          \E t \in tasks :
             /\ t.id = last.id
             /\ t.payload.messages = message_queue
             /\ Without(t.payload.messages, {last.id}) = Without(last.pre_queue, evicted)
             /\ t.payload.messages[Len(t.payload.messages)] = Msg(last.id, "user")

\* A request with two messages is outstanding while the queue has changed.
C21_Witness ==
    \E t \in tasks :
       /\ t.pc = "post"
       /\ Len(t.payload.messages) >= 2
       /\ message_queue # t.snapshot

\* C22: the latest-ad slot is overwritten with the first ad by a response
\* that has ads (whatever it held), cleared by get_latest_ad() and cleared by
\* a malformed response; every other step (__call__ and its enqueue, an empty
\* response, a transport failure, the commit, rethrow and settling of a
\* submission, is_healthy(), the clock) leaves it as it was.
C22_SlotChangesThreeWays ==
    /\ (last.op = "response" /\ last.role = "ads") =>
          latest_ad = ResponseAds("ads", last.id)[1]
    /\ (last.op = "response" /\ last.role = "malformed") => latest_ad = Null
    /\ last.op = "get_latest_ad" => latest_ad = Null
    /\ ~(\/ last.op = "response" /\ last.role \in {"ads", "malformed"}
         \/ last.op = "get_latest_ad") => latest_ad = last.pre_ad

\* A response with ads replaced an ad that had not been retrieved.
C22_Witness ==
    /\ last.op = "response"
    /\ last.role = "ads"
    /\ last.pre_ad # Null
    /\ last.pre_ad # latest_ad
    /\ latest_ad = ResponseAds("ads", last.id)[1]

\* The step just taken opened the breaker.
Opened == ~last.pre_cb.is_open /\ circuit_breaker.is_open

\* C23: the breaker opens only on circuit_breaker_threshold consecutive
\* errors. With a threshold of at least 2, when the first error of a
\* submission (its malformed response, or its transport failure recorded by
\* _process_queue) opens the breaker, the submission before it ended in an
\* error too: errors separated by a successful submission do not add up.
C23_OnlyConsecutiveErrorsOpen ==
    (/\ Opened
     /\ last.op \in {"response", "rethrow"}
     /\ circuit_breaker.threshold >= 2) =>
       /\ prev.id > 0
       /\ prev.failed \/ prev.kind = "malformed"

\* C24: the documented usage. When, the client being Idle after a __call__
\* that fetched an ad, get_latest_ad() has returned an ad and
\* create_context() is called next, it returns the context string formatted
\* from that ad: the template with the title, the description and the
\* placement template of the ad in place of their placeholders.
C24_ContextOfRetrievedAd ==
    (last.op = "create_context" /\ last.got # Null /\ last.pre_state = IDLE) =>
       /\ last.ctx = format_context(context_template, Ad(last.got))
       /\ last.ctx # <<>>

\* C25: in the synchronous variant batches are strictly sequential. At most
\* one transport request is outstanding at any time, and a __call__ that
\* starts a submission finds no request of an earlier batch outstanding (on
\* a client whose max_queue_size is at least 1).
C25_SyncOneRequestOutstanding ==
    sync.max_queue_size >= 1 =>
       /\ Cardinality(sync.requests) <= 1
       /\ (sync_last.op = "call" /\ sync_last.started) => sync_last.pre.requests = {}

\* The request r that the last step of the synchronous variant answered.
Answered(r) == r \in sync_last.pre.requests /\ r.id = sync_last.id

\* C26: in the synchronous variant a transport failure of a batch records a
\* circuit-breaker error and does not commit the queue: the messages of the
\* failed batch that overflow has not evicted are still at the head of the
\* queue (on a client whose max_queue_size is at least 1).
C26_SyncFailureKeepsQueue ==
    (sync_last.op = "transport_error" /\ sync.max_queue_size >= 1) =>
       /\ sync.circuit_breaker.error_count = sync_last.pre.circuit_breaker.error_count + 1
       /\ \A r \in sync_last.pre.requests :
             Answered(r) =>
                IsPrefix(Without(r.payload.messages, sync.evicted), sync.message_queue)

\* The recognized placeholders and the fields of the ad they stand for.
FieldOf(ad, token) ==
    IF token = "{ad_title}" THEN ad.ad_title
    ELSE IF token = "{ad_description}" THEN ad.ad_description
         ELSE ad.placement_template

RECURSIVE Substituted(_, _)
\* The template with every recognized placeholder replaced by the field of
\* the ad, letter for letter, and every other token left as it is.
Substituted(template, ad) ==
    IF template = <<>> THEN <<>>
    ELSE (IF Head(template) \in {"{ad_title}", "{ad_description}", "{placement_template}"}
          THEN FieldOf(ad, Head(template))
          ELSE <<Head(template)>>) \o Substituted(Tail(template), ad)

\* C27: create_context substitutes literally. For an ad of plain text, each
\* {ad_title}, {ad_description} and {placement_template} of the template is
\* replaced by the field of the ad and all other text, unrecognized
\* placeholders included, is left verbatim.
C27_LiteralSubstitution ==
    (last.op = "create_context_of" /\ last.id = 1) =>
       last.ctx = Substituted(context_template, SampleAd(1))

\* The example of C27: "Product: {ad_title} - {ad_description}" with the
\* title "Laptop" and the description "Fast" gives "Product: Laptop - Fast".
C27_Example ==
    (/\ last.op = "create_context_of"
     /\ last.id = 1
     /\ context_template = <<"Product: ", "{ad_title}", " - ", "{ad_description}">>) =>
       last.ctx = <<"Product: ", "Laptop", " - ", "Fast">>

\* C28: reset() forces the breaker to Closed from any state. Afterwards
\* error_count is 0, no reset time is set and is_open() returns false at any
\* time; and the breaker opens again only by the threshold-th error counted
\* from 0.
C28_ResetForcesClosed ==
    /\ last.op = "reset" =>
          /\ circuit_breaker = [last.pre_cb EXCEPT !.is_open = FALSE, !.error_count = 0,
                                                   !.reset_time = Null]
          /\ \A t \in 0..MaxTime : ~is_open(circuit_breaker, t).ret
    /\ (last.op = "record_error" /\ Opened) =>
          /\ circuit_breaker.error_count = circuit_breaker.threshold
          /\ last.pre_cb.error_count = circuit_breaker.threshold - 1

\* reset() was called on an open breaker whose cooldown had not run out.
C28_Witness ==
    /\ last.op = "reset"
    /\ last.pre_cb.is_open
    /\ last.pre_cb.error_count > last.pre_cb.threshold
    /\ last.t < last.pre_cb.reset_time
    /\ ~circuit_breaker.is_open

\* C29: constructing a client throws when neither the api_key argument nor
\* the environment value ADCORTEX_API_KEY has a key (absent or empty) and
\* no client results; otherwise the client is constructed, with the key of
\* the argument when it has one and with the environment value when not.
C29_ApiKeyResolution ==
    last.op = "construct" =>
       /\ key.ended = "threw" <=> (~Truthy(key.arg) /\ ~Truthy(key.env))
       /\ key.ended = "constructed" <=> (Truthy(key.arg) \/ Truthy(key.env))
       /\ Truthy(key.arg) => key.field = key.arg
       /\ (~Truthy(key.arg) /\ Truthy(key.env)) => key.field = key.env

\* A constructor given an empty api_key, with no environment value, threw.
C29_Witness ==
    /\ last.op = "construct"
    /\ key.arg = Str("")
    /\ key.env = Missing
    /\ key.ended = "threw"

\* C30: a submission that fails at the transport records exactly one
\* error: when the failed __call__ settles, error_count is 1 higher than
\* when its submission started, and the breaker is still closed when that
\* is below the threshold.
C30_OneErrorPerFailure ==
    (last.op = "settle" /\ last.ret /\ max_queue_size >= 1)
       => \A n \in 0..circuit_breaker.threshold :
             (StartedWith(n) /\ n + 1 < circuit_breaker.threshold)
                => /\ circuit_breaker.error_count = n + 1
                   /\ ~circuit_breaker.is_open

\* C31: a malformed response is handled inside _handle_response and its
\* submission commits like a successful one: the commit removes the length
\* of the batch from the queue, none of the batch's messages is queued
\* afterwards, the __call__ settles without a failure, and the batch of the
\* next submission holds none of them.
C31_MalformedCommits ==
    /\ (last.op = "commit" /\ last.role = "malformed")
          => /\ message_queue = Commit(last.pre_queue, last.snap)
             /\ Ids(message_queue) \cap Ids(last.snap) = {}
    /\ (last.op = "settle" /\ last.role = "malformed")
          => /\ ~last.ret
             /\ Ids(message_queue) \cap Ids(last.snap) = {}
    /\ (last.op = "call" /\ last.started /\ prev.kind = "malformed")
          => Ids(last.snap) \cap Ids(prev.snap) = {}

\* A submission started after one that got a malformed response, which
\* recorded an error, with an ai message left from before.
C31_Witness ==
    /\ last.op = "call" /\ last.started
    /\ prev.kind = "malformed"
    /\ last.pre_cb.error_count >= 1
    /\ Len(last.snap) >= 2

\* The ids of the messages in the payload of the submission just started.
SentNow == UNION {{t.payload.messages[i].id : i \in 1..Len(t.payload.messages)} :
                  t \in {u \in tasks : u.id = last.id}}

\* C32: no message is transmitted in more than one committed batch: a
\* message of a committed batch is never queued again, and the payload of a
\* submission holds no message of a batch committed before it.
C32_CommittedNeverResent ==
    /\ Ids(message_queue) \cap committed = {}
    /\ (last.op = "call" /\ last.started) => SentNow \cap committed = {}

\* A submission started after a committed batch, a failed one and an overflow.
C32_Witness ==
    /\ last.op = "call" /\ last.started
    /\ SentNow # {}
    /\ committed # {}
    /\ evicted # {}
    /\ \E i \in 1..Len(outcomes) : outcomes[i] = "fail"

\* C33: when a submission completes, the messages enqueued during it that
\* overflow has not evicted are still queued and no submission is started;
\* a user-role __call__ made while Processing starts none either and leaves
\* the submission in progress as it was.
C33_EnqueuedDuringStay ==
    /\ (last.op = "settle" /\ max_queue_size >= 1)
          => /\ state = IDLE /\ processing_task = Null /\ tasks = {}
             /\ \A i \in (last.id + 1)..(next_id - 1) :
                   i \notin evicted => i \in Ids(message_queue)
    /\ (last.op = "call" /\ last.role = "user" /\ last.pre_state = PROCESSING)
          => /\ ~last.started
             /\ tasks = last.pre_tasks

C35_BatchEndsWithTrigger ==
    /\ \A t \in tasks :
          /\ t.snapshot # <<>>
          /\ t.payload.messages # <<>>
          /\ t.payload.messages[Len(t.payload.messages)] = [id |-> t.id, role |-> "user"]
    /\ (last.op = "call" /\ last.started)
          => \E t \in tasks : t.id = last.id /\ t.pc = "post"

\* A submission started by a __call__ that found the queue full.
C35_Witness ==
    /\ last.op = "call" /\ last.started
    /\ last.pre_queue # <<>>
    /\ Len(last.pre_queue) = max_queue_size
    /\ Len(last.snap) = max_queue_size

\* C36: a __call__ whose role is neither user nor ai is rejected by the
\* validation before anything is enqueued: the queue, the client state, the
\* circuit breaker, the ad slot and the submissions in progress are as
\* before, no submission is started and the promise of __call__ rejects.
C36_InvalidRoleRejected ==
    (last.op = "call" /\ last.role \notin Role)
       => /\ message_queue = last.pre_queue
          /\ state = last.pre_state
          /\ circuit_breaker = last.pre_cb
          /\ latest_ad = last.pre_ad
          /\ tasks = last.pre_tasks
          /\ ~last.started
          /\ last.promise = "rejected"

\* A __call__ with the role "system" made on an idle client with a closed
\* breaker and a message waiting in the queue.
C36_Witness ==
    /\ last.op = "call" /\ last.role = "system"
    /\ last.pre_state = IDLE
    /\ ~last.pre_cb.is_open
    /\ last.pre_queue # <<>>

\* C37: in the message-count client, while no ad has been shown, call()
\* attempts an ad fetch exactly when the number of messages added so far is
\* at least the num_messages_before_ad passed to the constructor.
C37_FirstAdAfterBefore ==
    (legacy_last.op = "call" /\ legacy_last.pre.shown_ads = <<>>)
       => (legacy_last.attempted
              <=> legacy.messages >= legacy.args.num_messages_before_ad)

\* C38: in the message-count client, after an ad has been shown, call()
\* attempts the next ad fetch exactly when at least num_messages_between_ads
\* further messages have been added since that ad was shown.
C38_NextAdAfterBetween ==
    (legacy_last.op = "call" /\ legacy_last.pre.shown_ads # <<>>)
       => LET shown == legacy_last.pre.shown_ads[Len(legacy_last.pre.shown_ads)]
          IN  legacy_last.attempted
                 <=> legacy.messages - shown.message_count.v
                        >= legacy.args.num_messages_between_ads

====
